---- MODULE Spec2Model ----
(***************************************************************************)
(* Model of the Ozon unit-economics report pipeline:                       *)
(*   src/src/lib/parse.ts      parseCurrency, parseReport (row decoding    *)
(*                             and aggregation)                            *)
(*   src/unnamed/part_001      ArticlesTable (per-product metrics and the  *)
(*                             summary line)                               *)
(*   src/src/app/page.tsx      Home (grand-total dashboard, overrides,     *)
(*                             handleFile, loadDefaultReport, handleReset) *)
(*                                                                         *)
(* Numbers.  The program computes in IEEE doubles.  The model computes in  *)
(* exact rationals [n, d] in lowest terms with d > 0; the record with      *)
(* d = 0 stands for every non-finite double (Infinity, -Infinity, NaN).    *)
(* Rounding is therefore not modelled there: those properties are about    *)
(* the formulas, exact to the last digit, not about the last bit of a      *)
(* double.  Where the last bit matters, the sums of the revenue column are *)
(* also computed bit by bit in IEEE 754 binary64 (section binary64).       *)
(*                                                                         *)
(* Text.  A cell of the report is a sequence of one-character strings.     *)
(* The report's Cyrillic column names are written with the English names   *)
(* the specification uses for them; the table at Columns gives the         *)
(* correspondence.                                                         *)
(***************************************************************************)
EXTENDS Integers, Sequences, FiniteSets, TLC

(***************************************************************************)
(* Exact arithmetic                                                        *)
(***************************************************************************)
Abs(i) == IF i < 0 THEN -i ELSE i

RECURSIVE GCD(_, _)
GCD(a, b) == IF b = 0 THEN a ELSE GCD(b, a % b)

\* The non-finite double: the result of a division by zero and of every
\* operation one of whose operands is non-finite.
NonFinite == [n |-> 0, d |-> 0]

IsFinite(x) == x.d # 0

\* n/d in lowest terms, d > 0.
Rat(n, d) ==
    IF d = 0 THEN NonFinite
    ELSE LET g == GCD(Abs(n), Abs(d))
             s == IF d < 0 THEN -1 ELSE 1
         IN  [n |-> s * (n \div g), d |-> s * (d \div g)]

RInt(i) == [n |-> i, d |-> 1]

Zero == RInt(0)

RNeg(x) == [n |-> -x.n, d |-> x.d]

RAdd(x, y) ==
    IF x.d = 0 \/ y.d = 0 THEN NonFinite
    ELSE IF x.d = 1 /\ y.d = 1 THEN [n |-> x.n + y.n, d |-> 1]
    ELSE LET g == GCD(x.d, y.d)
         IN  Rat(x.n * (y.d \div g) + y.n * (x.d \div g), (x.d \div g) * y.d)

RSub(x, y) == RAdd(x, RNeg(y))

RMul(x, y) ==
    IF x.d = 0 \/ y.d = 0 THEN NonFinite
    ELSE IF x.d = 1 /\ y.d = 1 THEN [n |-> x.n * y.n, d |-> 1]
    ELSE LET g1 == GCD(Abs(x.n), y.d)
             g2 == GCD(Abs(y.n), x.d)
             h1 == IF g1 = 0 THEN 1 ELSE g1
             h2 == IF g2 = 0 THEN 1 ELSE g2
         IN  Rat((x.n \div h1) * (y.n \div h2), (x.d \div h2) * (y.d \div h1))

\* x / y of JavaScript: a zero divisor gives a non-finite result.
RDiv(x, y) ==
    IF x.d = 0 \/ y.d = 0 \/ y.n = 0 THEN NonFinite
    ELSE RMul(x, Rat(y.d, y.n))

\* Math.abs
RAbs(x) == [n |-> Abs(x.n), d |-> x.d]

\* x > 0, x < 0, x <= y of JavaScript (every comparison with NaN is false).
RPos(x) == x.d # 0 /\ x.n > 0

RNegative(x) == x.d # 0 /\ x.n < 0

RLeq(x, y) == x.d # 0 /\ y.d # 0 /\ x.n * y.d <= y.n * x.d

\* Truthiness of a number: 0 and NaN are falsy.
Truthy(x) == x.d # 0 /\ x.n # 0

\* s[1] + ... + s[k], added from the left starting at 0, as
\* s.reduce((sum, x) => sum + x, 0) does.
RECURSIVE RSumTo(_, _)
RSumTo(s, k) == IF k = 0 THEN Zero ELSE RAdd(RSumTo(s, k - 1), s[k])

RSum(s) == RSumTo(s, Len(s))

RECURSIVE Pow10(_)
Pow10(k) == IF k = 0 THEN 1 ELSE 10 * Pow10(k - 1)

(***************************************************************************)
(* parse.ts: parseCurrency                                                 *)
(***************************************************************************)
Digits == {"0", "1", "2", "3", "4", "5", "6", "7", "8", "9"}

DigitVal(c) ==
    CASE c = "0" -> 0 [] c = "1" -> 1 [] c = "2" -> 2 [] c = "3" -> 3
      [] c = "4" -> 4 [] c = "5" -> 5 [] c = "6" -> 6 [] c = "7" -> 7
      [] c = "8" -> 8 [] c = "9" -> 9

StripNonNumericAndSign(s) == SelectSeq(s, LAMBDA c : c \in Digits \cup {",", "."})

\* value.replace(/[^\d,\.-]/g, ""): drop every character that is not a
\* digit, a comma, a period or a minus sign.
StripNonNumeric(s) == SelectSeq(s, LAMBDA c : c \in Digits \cup {",", ".", "-"})

\* Index of the first comma of s, 0 when there is none.
RECURSIVE FirstComma(_, _)
FirstComma(s, i) ==
    IF i > Len(s) THEN 0
    ELSE IF s[i] = "," THEN i
    ELSE FirstComma(s, i + 1)

RemoveFirstComma(s) ==
    LET k == FirstComma(s, 1)
    IN  IF k = 0 THEN s ELSE SubSeq(s, 1, k - 1) \o SubSeq(s, k + 1, Len(s))

\* s.replace(",", "."): a string pattern replaces the first occurrence only.
ReplaceFirstComma(s) ==
    LET k == FirstComma(s, 1)
    IN  [i \in 1..Len(s) |-> IF i = k THEN "." ELSE s[i]]

\* Number of digits of s from position i on.
RECURSIVE DigitRun(_, _)
DigitRun(s, i) ==
    IF i > Len(s) \/ s[i] \notin Digits THEN 0 ELSE 1 + DigitRun(s, i + 1)

\* The natural number written by the digits s[i .. i+k-1].
RECURSIVE DigitsValue(_, _, _)
DigitsValue(s, i, k) ==
    IF k = 0 THEN 0
    ELSE 10 * DigitsValue(s, i, k - 1) + DigitVal(s[i + k - 1])

\* parseFloat on a string of digits, commas, periods and minus signs: the
\* value of the longest prefix of the form  -? digits (. digits?)?  or
\* -? . digits ;  NaN (non-finite) when no prefix has that form.
ParseFloat(s) ==
    LET neg  == Len(s) >= 1 /\ s[1] = "-"
        from == IF neg THEN 2 ELSE 1
        ip   == DigitRun(s, from)
        dot  == from + ip <= Len(s) /\ s[from + ip] = "."
        fp   == IF dot THEN DigitRun(s, from + ip + 1) ELSE 0
        mag  == Rat(DigitsValue(s, from, ip) * Pow10(fp)
                      + DigitsValue(s, from + ip + 1, fp), Pow10(fp))
    IN  IF ip = 0 /\ fp = 0 THEN NonFinite
        ELSE IF neg THEN RNeg(mag) ELSE mag

\* The value undefined where a string is expected: a sequence that is no
\* sequence of characters.
Undefined == <<"undefined">>

parseCurrencyKeepsNaN(value) ==
    IF value = Undefined \/ value = <<>> THEN Zero
    ELSE ParseFloat(ReplaceFirstComma(StripNonNumeric(value)))

\* parseCurrency(value); <<>> is the empty string.
parseCurrency(value) ==
    IF value = Undefined \/ value = <<>> THEN Zero
    ELSE LET cleanValue == ReplaceFirstComma(StripNonNumeric(value))
             parsed     == ParseFloat(cleanValue)
         IN  IF ~IsFinite(parsed) THEN Zero ELSE parsed

(***************************************************************************)
(* parse.ts: the report's columns                                          *)
(*                                                                         *)
(*   Revenue               "Выручка"                                       *)
(*   DiscountPoints        "Баллы за скидки"                               *)
(*   PartnerPrograms       "Программы партнёров"                           *)
(*   OzonCommission        "Вознаграждение Ozon"                           *)
(*   OrderedItems          "Заказано товаров, шт"                          *)
(*   DeliveredItems        "Доставлено товаров, шт"                        *)
(*   ReturnedItems         "Возвращено товаров, шт"                        *)
(*   ShipmentProcessing    "Обработка отправления"                         *)
(*   Logistics             "Логистика"                                     *)
(*   DeliveryToPickupPoint "Доставка до места выдачи"                      *)
(*   PlacementCost         "Стоимость размещения"                          *)
(*   Acquiring             "Эквайринг"                                     *)
(*   ReturnProcessing      "Обработка возврата"                            *)
(*   ReverseLogistics      "Обратная логистика"                            *)
(*   Disposal              "Утилизация"                                    *)
(*   SellerErrorProcessing "Обработка ошибок продавца"                     *)
(*   PayPerClick           "Оплата за клик"                                *)
(*   PayPerOrder           "Оплата за заказ"                               *)
(*   FeaturedListing       "Звёздные товары"                               *)
(*   PaidBrand             "Платный бренд"                                 *)
(*   CostPrice             "Себестоимость"                                 *)
(*   SKU                   "Артикул"                                       *)
(*   ProductName           "Наименование товара"                           *)
(*                                                                         *)
(* A row (ReportRow) is a function from the columns it has to their cells; *)
(* a column the row lacks is outside its DOMAIN (row[key] is undefined).   *)
(* Numeric cells are character sequences; the SKU and ProductName cells,   *)
(* which the program only compares and copies, are strings.                *)
(***************************************************************************)
NumericColumns ==
    {"Revenue", "DiscountPoints", "PartnerPrograms", "OzonCommission",
     "OrderedItems", "DeliveredItems", "ReturnedItems",
     "ShipmentProcessing", "Logistics", "DeliveryToPickupPoint", "PlacementCost",
     "Acquiring", "ReturnProcessing", "ReverseLogistics",
     "Disposal", "SellerErrorProcessing",
     "PayPerClick", "PayPerOrder", "FeaturedListing", "PaidBrand", "CostPrice"}

\* A faulty helper without the guard: the number of a missing cell is NaN.
getValUnguarded(row, key) ==
    IF key \in DOMAIN row /\ row[key] # <<>> THEN parseCurrency(row[key]) ELSE NonFinite

\* const getVal = (key) => row[key] ? parseCurrency(row[key]) : 0
getVal(row, key) ==
    IF key \in DOMAIN row /\ row[key] # <<>> THEN parseCurrency(row[key]) ELSE Zero

\* A faulty default, row[key] ?? "Unknown": the empty cell is kept.
textOrUnknownKeepsEmpty(row, key) == IF key \in DOMAIN row THEN row[key] ELSE "Unknown"

\* row[key] || "Unknown"
textOrUnknown(row, key) ==
    IF key \in DOMAIN row /\ row[key] # "" THEN row[key] ELSE "Unknown"

\* A faulty grouping: the placement cost is left out of logistics.
rowLogisticsNoPlacement(row) ==
    RAdd(RAdd(RAdd(Zero, getVal(row, "ShipmentProcessing")),
              getVal(row, "Logistics")),
         getVal(row, "DeliveryToPickupPoint"))

rowLogistics(row) ==
    RAdd(RAdd(RAdd(RAdd(Zero, getVal(row, "ShipmentProcessing")),
                   getVal(row, "Logistics")),
              getVal(row, "DeliveryToPickupPoint")),
         getVal(row, "PlacementCost"))

rowAcquiring(row) == getVal(row, "Acquiring")

rowReturns(row) ==
    RAdd(RAdd(Zero, getVal(row, "ReturnProcessing")), getVal(row, "ReverseLogistics"))

rowAdditional(row) ==
    RAdd(RAdd(Zero, getVal(row, "Disposal")), getVal(row, "SellerErrorProcessing"))

rowPromotion(row) ==
    RAdd(RAdd(RAdd(RAdd(Zero, getVal(row, "PayPerClick")),
                   getVal(row, "PayPerOrder")),
              getVal(row, "FeaturedListing")),
         getVal(row, "PaidBrand"))

\* A faulty cost of goods: the sign is lost.
rowCogsPositive(row) ==
    LET unitCost  == getVal(row, "CostPrice")
        delivered == getVal(row, "DeliveredItems")
        returned  == getVal(row, "ReturnedItems")
    IN  RMul(unitCost, RSub(delivered, returned))

\* const rowCogs = -(unitCost * (delivered - returned))
rowCogs(row) ==
    LET unitCost  == getVal(row, "CostPrice")
        delivered == getVal(row, "DeliveredItems")
        returned  == getVal(row, "ReturnedItems")
    IN  RNeg(RMul(unitCost, RSub(delivered, returned)))

\* The thirteen numeric fields of an ArticleRow and of an AnalysisResult.
LedgerFields ==
    {"revenue", "discountPoints", "partnerPrograms", "marketplaceCommission",
     "orderedItems", "deliveredItems", "returnedItems", "logisticsCost",
     "acquiringCost", "returnsCost", "additionalServicesCost", "promotionCost",
     "totalCogs"}

\* What one row adds to each accumulator (the right-hand sides of the +=
\* statements of the forEach body).
rowAmounts(row) ==
    [revenue                |-> getVal(row, "Revenue"),
     discountPoints         |-> getVal(row, "DiscountPoints"),
     partnerPrograms        |-> getVal(row, "PartnerPrograms"),
     marketplaceCommission  |-> getVal(row, "OzonCommission"),
     orderedItems           |-> getVal(row, "OrderedItems"),
     deliveredItems         |-> getVal(row, "DeliveredItems"),
     returnedItems          |-> getVal(row, "ReturnedItems"),
     logisticsCost          |-> rowLogistics(row),
     acquiringCost          |-> rowAcquiring(row),
     returnsCost            |-> rowReturns(row),
     additionalServicesCost |-> rowAdditional(row),
     promotionCost          |-> rowPromotion(row),
     totalCogs              |-> rowCogs(row)]

\* let revenue = 0; ... let totalCogs = 0;
zeroSums == [f \in LedgerFields |-> Zero]

\* The object articlesMap.set(sku, {...}) stores for a key seen first.
newArticle(sku, name) == [f \in LedgerFields |-> Zero] @@ [sku |-> sku, name |-> name]

\* ledger with every numeric field increased by the row's amount.
addAmounts(ledger, amounts) ==
    [f \in DOMAIN ledger |->
        IF f \in LedgerFields THEN RAdd(ledger[f], amounts[f]) ELSE ledger[f]]

\* Index of the entry of map m with key sku, 0 when articlesMap.has(sku)
\* is false.  m lists the entries in insertion order, as a Map does.
RECURSIVE mapIndex(_, _, _)
mapIndex(m, sku, i) ==
    IF i > Len(m) THEN 0
    ELSE IF m[i].sku = sku THEN i
    ELSE mapIndex(m, sku, i + 1)

\* A faulty aggregation: a row of a key already seen replaces the key's
\* amounts instead of adding to them.
aggregateArticleKeepsLast(m, row) ==
    LET sku  == textOrUnknown(row, "SKU")
        name == textOrUnknown(row, "ProductName")
        m1   == IF mapIndex(m, sku, 1) = 0 THEN Append(m, newArticle(sku, name)) ELSE m
        k    == mapIndex(m1, sku, 1)
    IN  [m1 EXCEPT ![k] = addAmounts(newArticle(m1[k].sku, m1[k].name), rowAmounts(row))]

\* A faulty aggregation: every row sets the display name of its key.
aggregateArticleLastName(m, row) ==
    LET sku  == textOrUnknown(row, "SKU")
        name == textOrUnknown(row, "ProductName")
        m1   == IF mapIndex(m, sku, 1) = 0 THEN Append(m, newArticle(sku, name)) ELSE m
        k    == mapIndex(m1, sku, 1)
    IN  [m1 EXCEPT ![k] = [addAmounts(m1[k], rowAmounts(row)) EXCEPT !.name = name]]

\* The "Article aggregation" part of the forEach body.
aggregateArticle(m, row) ==
    LET sku  == textOrUnknown(row, "SKU")
        name == textOrUnknown(row, "ProductName")
        m1   == IF mapIndex(m, sku, 1) = 0 THEN Append(m, newArticle(sku, name)) ELSE m
        k    == mapIndex(m1, sku, 1)
    IN  [m1 EXCEPT ![k] = addAmounts(m1[k], rowAmounts(row))]

(***************************************************************************)
(* binary64: the doubles of the revenue column                             *)
(*                                                                         *)
(* A finite double that is not negative is [m, e]: m the 53 bits of its    *)
(* significand, the most significant first, e the exponent of its last     *)
(* bit; its value is m read as a binary number, times 2^e.  Zero is 53     *)
(* zero bits with e = 0; every other double has m[1] = 1.  Negative        *)
(* numbers, subnormal numbers and overflow are outside this section: the   *)
(* cells it is applied to are small decimals that are not negative.        *)
(***************************************************************************)
SignificandBits == 53

Zeros(n) == [i \in 1..n |-> 0]

zero64 == [m |-> Zeros(SignificandBits), e |-> 0]

RECURSIVE StripLeadingZeros(_)
StripLeadingZeros(b) ==
    IF b = <<>> \/ b[1] = 1 THEN b ELSE StripLeadingZeros(Tail(b))

\* a + b + c for bit sequences a and b of the same length and a carry c,
\* over the positions 1..i: i + 1 bits, the carry out first.
RECURSIVE AddBits(_, _, _, _)
AddBits(a, b, i, c) ==
    IF i = 0 THEN <<c>>
    ELSE LET t == a[i] + b[i] + c
         IN  IF t >= 2 THEN Append(AddBits(a, b, i - 1, 1), t - 2)
             ELSE Append(AddBits(a, b, i - 1, 0), t)

\* The bits of the natural number n, none for 0.
RECURSIVE NatBits(_)
NatBits(n) == IF n = 0 THEN <<>> ELSE Append(NatBits(n \div 2), n % 2)

\* The first count bits of the binary fraction r / d, r < d, followed by
\* one bit that tells whether bits other than 0 follow (the sticky bit).
RECURSIVE FractionBits(_, _, _)
FractionBits(r, d, count) ==
    IF count = 0 THEN <<IF r = 0 THEN 0 ELSE 1>>
    ELSE <<(2 * r) \div d>> \o FractionBits((2 * r) % d, d, count - 1)

\* The double nearest to bits * 2^e, ties to the even significand.
roundToDouble(bits, e) ==
    LET s == StripLeadingZeros(bits)
        n == Len(s)
    IN  IF n = 0 THEN zero64
        ELSE IF n <= SignificandBits
        THEN [m |-> s \o Zeros(SignificandBits - n), e |-> e - (SignificandBits - n)]
        ELSE LET top    == SubSeq(s, 1, SignificandBits)
                 guard  == s[SignificandBits + 1]
                 sticky == \E i \in (SignificandBits + 2)..n : s[i] = 1
                 up     == guard = 1 /\ (sticky \/ top[SignificandBits] = 1)
                 inc    == AddBits(top, Zeros(SignificandBits), SignificandBits, 1)
                 e1     == e + (n - SignificandBits)
             IN  IF ~up THEN [m |-> top, e |-> e1]
                 ELSE IF inc[1] = 1
                 THEN [m |-> SubSeq(inc, 1, SignificandBits), e |-> e1 + 1]
                 ELSE [m |-> Tail(inc), e |-> e1]

\* x + y of two doubles that are not negative: the exact sum, rounded.
add64(x, y) ==
    IF x = zero64 THEN y
    ELSE IF y = zero64 THEN x
    ELSE LET e0  == IF x.e <= y.e THEN x.e ELSE y.e
             a   == x.m \o Zeros(x.e - e0)
             b   == y.m \o Zeros(y.e - e0)
             len == IF Len(a) >= Len(b) THEN Len(a) ELSE Len(b)
         IN  roundToDouble(AddBits(Zeros(len - Len(a)) \o a,
                                   Zeros(len - Len(b)) \o b, len, 0), e0)

\* The double parseFloat returns for the decimal x >= 0: the nearest one.
toDouble(x) ==
    LET fraction == 64
    IN  roundToDouble(NatBits(x.n \div x.d) \o FractionBits(x.n % x.d, x.d, fraction),
                      -(fraction + 1))

\* revenue += getVal("Выручка") and article.revenue += getVal("Выручка")
\* in doubles; m is articlesMap before the row, b.articles lists the
\* revenue of its ledgers in the same order.
accumulate64(b, m, row) ==
    LET v    == toDouble(getVal(row, "Revenue"))
        sku  == textOrUnknown(row, "SKU")
        old  == IF mapIndex(m, sku, 1) = 0 THEN Append(b.articles, zero64) ELSE b.articles
        k    == IF mapIndex(m, sku, 1) = 0 THEN Len(m) + 1 ELSE mapIndex(m, sku, 1)
    IN  [revenue  |-> add64(b.revenue, v),
         articles |-> [old EXCEPT ![k] = add64(old[k], v)]]

(***************************************************************************)
(* State                                                                   *)
(***************************************************************************)
VARIABLES
    pc,            \* "parsing": inside Papa's complete callback; "done": resolved
    data,          \* the rows of results.data the forEach has visited so far
    sums,          \* the accumulators revenue, ..., totalCogs of the callback
    articlesMap,   \* articlesMap, its entries in insertion order
    result,        \* Home's result: <<>> is null, <<r>> the AnalysisResult r
    overrides,     \* Home's overrides: a function from metric keys to numbers
    activeTab,     \* Home's activeTab
    distributeAds, \* ArticlesTable's distributeAds
    cell,          \* the argument of a call of parseCurrency on its own
    number,        \* its return value: <<>> before the return, <<n>> after
    text,          \* the file's text, as the lines text.split(/\r?\n/) gives
    headerLineIndex, \* headerLineIndex of reader.onload, 0-based
    promise,       \* the promise parseReport returned
    binary64,      \* the accumulators of the revenue column as doubles
    isProcessing,  \* Home's isProcessing
    error,         \* Home's error: <<>> is null, <<m>> the message m
    calls,         \* the calls of handleFile so far, in the order they started
    defaultReport, \* loadDefaultReport: "fetching" until its fetch has settled
    sorting        \* ArticlesTable's sortField and sortDirection

\* The call of parseCurrency on its own.
cellVars == <<cell, number>>

\* The file being read and the promise of its analysis.
fileVars == <<text, headerLineIndex, promise>>

\* What Home keeps of its calls of handleFile.
pageVars == <<isProcessing, error, calls, defaultReport>>

vars == <<pc, data, sums, articlesMap, result, overrides, activeTab, distributeAds,
          cellVars, fileVars, binary64, pageVars, sorting>>

(***************************************************************************)
(* parse.ts: parseReport up to Papa.parse                                  *)
(*                                                                         *)
(* A line is the sequence of its words.  The marker "Выручка" is the word  *)
(* Revenue, the marker "Баллы за скидки" the words Discount Points.        *)
(***************************************************************************)
revenueMarker == <<"Revenue">>

discountMarker == <<"Discount", "Points">>

\* line.includes(marker): marker occurs in line as a contiguous part.
includes(line, marker) ==
    \E i \in 0..(Len(line) - Len(marker)) :
        SubSeq(line, i + 1, i + Len(marker)) = marker

\* The number of leading lines the header is searched in.
ScanWindow == 20

Min(a, b) == IF a <= b THEN a ELSE b

RECURSIVE scanHeaderLineWholeFile(_, _)
scanHeaderLineWholeFile(lines, i) ==
    IF i >= Len(lines) THEN -1
    ELSE IF includes(lines[i + 1], revenueMarker)
              /\ includes(lines[i + 1], discountMarker) THEN i
    ELSE scanHeaderLineWholeFile(lines, i + 1)

\* The for loop from index i on: the first index below
\* Math.min(lines.length, 20) whose line includes both markers, -1 when the
\* loop ends without a break.  lines[i] of the program is lines[i + 1] here.
RECURSIVE scanHeaderLine(_, _)
scanHeaderLine(lines, i) ==
    IF i >= Min(Len(lines), ScanWindow) THEN -1
    ELSE IF includes(lines[i + 1], revenueMarker)
              /\ includes(lines[i + 1], discountMarker) THEN i
    ELSE scanHeaderLine(lines, i + 1)

fallbackHeaderLineAlwaysFourth(lines) == 3

\* if (lines.length > 3) headerLineIndex = 3; else headerLineIndex = 0;
fallbackHeaderLine(lines) == IF Len(lines) > 3 THEN 3 ELSE 0

\* headerLineIndex after the loop and the fallback.
locateHeaderLine(lines) ==
    LET found == scanHeaderLine(lines, 0)
    IN  IF found = -1 THEN fallbackHeaderLine(lines) ELSE found

\* lines.slice(headerLineIndex), the lines Papa.parse is given.
csvContent == SubSeq(text, headerLineIndex + 1, Len(text))

\* !text: the empty string splits into one empty line.
emptyText == text = << <<>> >>

Pending == [state |-> "pending", reason |-> "", settled |-> 0]

\* resolve(...) and reject(new Error(reason)): the first call settles the
\* promise, a later call changes nothing; settled counts the calls.
settle(p, state, reason) ==
    [state   |-> IF p.state = "pending" THEN state ELSE p.state,
     reason  |-> IF p.state = "pending" THEN reason ELSE p.reason,
     settled |-> p.settled + 1]

\* reader.onerror, and the catch and finally of the handleFile that awaits
\* the promise.
ReadFails ==
    /\ pc = "reading"
    /\ pc' = "failed"
    /\ promise' = settle(promise, "rejected", "Failed to read file")
    /\ error' = <<"Failed to read file">>
    /\ isProcessing' = FALSE
    /\ UNCHANGED <<data, sums, articlesMap, result, overrides, activeTab,
                   distributeAds, binary64, cellVars, calls, defaultReport, sorting,
                   text, headerLineIndex>>

OnLoadWithoutReturn ==
    /\ pc = "reading"
    /\ pc' = "parsing"
    /\ headerLineIndex' = locateHeaderLine(text)
    /\ promise' = IF emptyText THEN settle(promise, "rejected", "Empty file")
                  ELSE promise
    /\ error' = IF emptyText THEN <<"Empty file">> ELSE error
    /\ isProcessing' = IF emptyText THEN FALSE ELSE isProcessing
    /\ UNCHANGED <<data, sums, articlesMap, result, overrides, activeTab,
                   distributeAds, binary64, cellVars, calls, defaultReport, sorting, text>>

\* reader.onload up to the call of Papa.parse; on the empty file, also the
\* catch and finally of the handleFile that awaits the promise.
OnLoad ==
    /\ pc = "reading"
    /\ IF emptyText
       THEN /\ pc' = "failed"
            /\ promise' = settle(promise, "rejected", "Empty file")
            /\ error' = <<"Empty file">>
            /\ isProcessing' = FALSE
            /\ UNCHANGED headerLineIndex
       ELSE /\ pc' = "parsing"
            /\ headerLineIndex' = locateHeaderLine(text)
            /\ UNCHANGED <<promise, error, isProcessing>>
    /\ UNCHANGED <<data, sums, articlesMap, result, overrides, activeTab,
                   distributeAds, binary64, cellVars, calls, defaultReport, sorting, text>>

(***************************************************************************)
(* parse.ts: the complete callback of parseReport                          *)
(***************************************************************************)
\* The "Global accumulations" of the forEach body.
accumulate(s, row) == [f \in LedgerFields |-> RAdd(s[f], rowAmounts(row)[f])]

\* One iteration of results.data.forEach.
ProcessRow(row) ==
    /\ pc = "parsing"
    /\ data' = Append(data, row)
    /\ sums' = accumulate(sums, row)
    /\ articlesMap' = aggregateArticle(articlesMap, row)
    /\ UNCHANGED <<pc, result, overrides, activeTab, distributeAds, binary64, cellVars, pageVars, sorting, fileVars>>

\* The object passed to resolve: the accumulators and
\* Array.from(articlesMap.values()).
analysisResult(s, m) == s @@ [articles |-> m]

\* The end of the callback: resolve(...), which handleFile stores with
\* setResult(data) before its finally clause.
Complete ==
    /\ pc = "parsing"
    /\ pc' = "done"
    /\ result' = <<analysisResult(sums, articlesMap)>>
    /\ promise' = settle(promise, "fulfilled", "")
    /\ isProcessing' = FALSE
    /\ UNCHANGED <<data, sums, articlesMap, overrides, activeTab, distributeAds,
                   binary64, cellVars, error, calls, defaultReport, sorting,
                   text, headerLineIndex>>

(***************************************************************************)
(* part_001: ArticlesTable                                                 *)
(***************************************************************************)
SUBSCRIPTION_COST == 24990

CROSS_DOCKING_RATE == Rat(15, 1000)

INCOME_TAX_RATE == Rat(25, 100)

\* The articles prop: result?.articles || []
articles == IF result = <<>> THEN <<>> ELSE result[1].articles

\* articles.reduce((sum, a) => sum + a.promotionCost, 0)
totalPromotionCost == RSum([i \in 1..Len(articles) |-> articles[i].promotionCost])

\* A faulty total: the discount points left out.
articleTotalSalesRevenueNoPoints(article) ==
    RAdd(article.revenue, article.partnerPrograms)

\* a.revenue + a.discountPoints + a.partnerPrograms
articleTotalSalesRevenue(article) ==
    RAdd(RAdd(article.revenue, article.discountPoints), article.partnerPrograms)

\* articles.reduce((sum, a) => sum + (a.revenue + a.discountPoints + a.partnerPrograms), 0)
totalRevenue == RSum([i \in 1..Len(articles) |-> articleTotalSalesRevenue(articles[i])])

\* -(totalSalesRevenue * CROSS_DOCKING_RATE)
crossDocking(totalSalesRevenue) == RNeg(RMul(totalSalesRevenue, CROSS_DOCKING_RATE))

\* totalRevenue > 0 ? totalSalesRevenue / totalRevenue : 0
revenueShare(totalSalesRevenue, total) ==
    IF RPos(total) THEN RDiv(totalSalesRevenue, total) ELSE Zero

\* A faulty allocation: the fee is added to the product instead of charged.
subscriptionAsIncome(share) == RMul(RInt(SUBSCRIPTION_COST), share)

\* -(SUBSCRIPTION_COST * revenueShare)
subscription(share) == RNeg(RMul(RInt(SUBSCRIPTION_COST), share))

\* A faulty redistribution: Math.abs is left out, so that a negative total
\* ad spend is handed out as income.
promotionBeforeSubscriptionNoAbs(article, share, totalPromotion, distribute) ==
    IF distribute THEN RNeg(RMul(totalPromotion, share)) ELSE article.promotionCost

\* let finalPromotionCost = article.promotionCost;
\* if (distributeAds) finalPromotionCost = -(Math.abs(totalPromotionCost) * revenueShare);
\* (the inner revenueShare is computed as the outer one is)
promotionBeforeSubscription(article, share, totalPromotion, distribute) ==
    IF distribute THEN RNeg(RMul(RAbs(totalPromotion), share)) ELSE article.promotionCost

\* Faulty total costs: the cross-docking fee is left out.
articleTotalCostsNoCrossDocking(article, finalPromotionCost, crossDockingFee) ==
    RAdd(RAdd(RAdd(RAdd(RAdd(RAdd(
        article.marketplaceCommission,
        article.logisticsCost),
        article.acquiringCost),
        article.returnsCost),
        article.additionalServicesCost),
        article.totalCogs),
        finalPromotionCost)

\* const totalCosts = article.marketplaceCommission + ... + crossDocking
articleTotalCosts(article, finalPromotionCost, crossDockingFee) ==
    RAdd(RAdd(RAdd(RAdd(RAdd(RAdd(RAdd(
        article.marketplaceCommission,
        article.logisticsCost),
        article.acquiringCost),
        article.returnsCost),
        article.additionalServicesCost),
        article.totalCogs),
        finalPromotionCost),
        crossDockingFee)

\* Faulty income tax: a loss is taxed too, which yields a rebate.
articleIncomeTaxOnLosses(profitPreTax) == RNeg(RMul(profitPreTax, INCOME_TAX_RATE))

\* profitPreTax > 0 ? -(profitPreTax * INCOME_TAX_RATE) : 0
articleIncomeTax(profitPreTax) ==
    IF RPos(profitPreTax) THEN RNeg(RMul(profitPreTax, INCOME_TAX_RATE)) ELSE Zero

\* totalSalesRevenue ? (profit / totalSalesRevenue) * 100 : 0
articleMargin(netProfit, totalSalesRevenue) ==
    IF Truthy(totalSalesRevenue)
    THEN RMul(RDiv(netProfit, totalSalesRevenue), RInt(100))
    ELSE Zero

\* article.deliveredItems > 0 ? totalSalesRevenue / article.deliveredItems : 0
articleAvgPrice(article, totalSalesRevenue) ==
    IF RPos(article.deliveredItems)
    THEN RDiv(totalSalesRevenue, article.deliveredItems)
    ELSE Zero

\* getEnrichedArticle(article) in a table whose articles total tr in
\* revenue and tp in promotion cost, with the distribution flag at flag.
\* The fields revenueShare and profitPreTax are locals of the function, kept
\* in the record so that they can be named.
enrich(article, tr, tp, flag) ==
    LET tsr     == articleTotalSalesRevenue(article)
        cross   == crossDocking(tsr)
        share   == revenueShare(tsr, tr)
        sub     == subscription(share)
        ads     == promotionBeforeSubscription(article, share, tp, flag)
        final   == RAdd(ads, sub)
        costs   == articleTotalCosts(article, final, cross)
        preTax  == RAdd(tsr, costs)
        tax     == articleIncomeTax(preTax)
        net     == RAdd(preTax, tax)
    IN  article @@
        [totalSalesRevenue  |-> tsr,
         crossDocking       |-> cross,
         revenueShare       |-> share,
         subscription       |-> sub,
         finalPromotionCost |-> final,
         totalCosts         |-> costs,
         totalCostsWithTax  |-> RAdd(costs, tax),
         profitPreTax       |-> preTax,
         profit             |-> net,
         margin             |-> articleMargin(net, tsr),
         incomeTax          |-> tax,
         avgPrice           |-> articleAvgPrice(article, tsr)]

getEnrichedArticle(article) ==
    enrich(article, totalRevenue, totalPromotionCost, distributeAds)

\* articles.map(getEnrichedArticle)
enrichedArticles ==
    LET tr == totalRevenue
        tp == totalPromotionCost
    IN  [i \in 1..Len(articles) |-> enrich(articles[i], tr, tp, distributeAds)]

\* The summary line of the table.
\* enrichedArticles.reduce((sum, a) => sum + a.marketplaceCommission + ... , 0):
\* the sum of one article's terms.
preTaxCostTerms(a) ==
    RAdd(RAdd(RAdd(RAdd(RAdd(RAdd(RAdd(
        a.marketplaceCommission,
        a.logisticsCost),
        a.acquiringCost),
        a.returnsCost),
        a.additionalServicesCost),
        a.totalCogs),
        a.finalPromotionCost),
        a.crossDocking)

totalPreTaxCosts ==
    LET enriched == enrichedArticles
    IN  RSum([i \in 1..Len(articles) |-> preTaxCostTerms(enriched[i])])

totalPreTaxProfit == RAdd(totalRevenue, totalPreTaxCosts)

globalIncomeTax ==
    IF RPos(totalPreTaxProfit) THEN RNeg(RMul(totalPreTaxProfit, INCOME_TAX_RATE)) ELSE Zero

totalProfit == RAdd(totalPreTaxProfit, globalIncomeTax)

totalMargin ==
    IF RPos(totalRevenue) THEN RMul(RDiv(totalProfit, totalRevenue), RInt(100)) ELSE Zero

\* useState<SortField>("revenue"), useState<SortDirection>("desc")
defaultSorting == [field |-> "revenue", direction |-> "desc"]

\* onClick={() => setDistributeAds(!distributeAds)}; the table is mounted
\* only under the articles tab of a displayed result.
ToggleDistributeAds ==
    /\ result # <<>>
    /\ activeTab = "articles"
    /\ distributeAds' = ~distributeAds
    /\ UNCHANGED <<pc, data, sums, articlesMap, result, overrides, activeTab, binary64, cellVars, pageVars, sorting, fileVars>>

(***************************************************************************)
(* page.tsx: Home, the grand-total dashboard                               *)
(***************************************************************************)
\* The keys of the StatsCards that offer an override.
OverrideKeys ==
    {"orderedItems", "deliveredItems", "returnedItems", "totalSalesRevenue",
     "revenue", "discountPoints", "partnerPrograms", "totalCosts", "totalCogs",
     "marketplaceCommission", "logisticsCost", "acquiringCost", "returnsCost",
     "promotionCost", "additionalServicesCost", "crossDockingCost", "incomeTax",
     "profit", "realMargin", "payoutToFactory"}

\* The StatsCards rendered with isExpense.
ExpenseKeys ==
    {"totalCosts", "totalCogs", "marketplaceCommission", "logisticsCost",
     "acquiringCost", "returnsCost", "promotionCost", "additionalServicesCost",
     "crossDockingCost", "incomeTax"}

\* overrides[key] !== undefined ? overrides[key] : baseValue
getValue(key, baseValue) ==
    IF key \in DOMAIN overrides THEN overrides[key] ELSE baseValue

\* result?.field ?? 0
base(field) == IF result = <<>> THEN Zero ELSE result[1][field]

revenue == getValue("revenue", base("revenue"))

discountPoints == getValue("discountPoints", base("discountPoints"))

partnerPrograms == getValue("partnerPrograms", base("partnerPrograms"))

calcTotalSalesRevenue == RAdd(RAdd(revenue, discountPoints), partnerPrograms)

totalSalesRevenue == getValue("totalSalesRevenue", calcTotalSalesRevenue)

\* -(totalSalesRevenue * 0.015)
calcCrossDockingCost == RNeg(RMul(totalSalesRevenue, Rat(15, 1000)))

crossDockingCost == getValue("crossDockingCost", calcCrossDockingCost)

marketplaceCommission == getValue("marketplaceCommission", base("marketplaceCommission"))

logisticsCost == getValue("logisticsCost", base("logisticsCost"))

acquiringCost == getValue("acquiringCost", base("acquiringCost"))

returnsCost == getValue("returnsCost", base("returnsCost"))

\* basePromotionCost - 24990
calcPromotionCost == RSub(base("promotionCost"), RInt(24990))

promotionCost == getValue("promotionCost", calcPromotionCost)

additionalServicesCost == getValue("additionalServicesCost", base("additionalServicesCost"))

totalCogs == getValue("totalCogs", base("totalCogs"))

calcPreTaxCosts ==
    RAdd(RAdd(RAdd(RAdd(RAdd(RAdd(RAdd(
        marketplaceCommission,
        logisticsCost),
        acquiringCost),
        returnsCost),
        promotionCost),
        additionalServicesCost),
        crossDockingCost),
        totalCogs)

preTaxCosts == getValue("preTaxCosts", calcPreTaxCosts)

preTaxProfit == RAdd(totalSalesRevenue, preTaxCosts)

\* preTaxProfit > 0 ? -(preTaxProfit * 0.25) : 0
calcIncomeTax == IF RPos(preTaxProfit) THEN RNeg(RMul(preTaxProfit, Rat(25, 100))) ELSE Zero

incomeTax == getValue("incomeTax", calcIncomeTax)

calcTotalCosts == RAdd(preTaxCosts, incomeTax)

totalCosts == getValue("totalCosts", calcTotalCosts)

operatingExpenses == RSub(totalCosts, totalCogs)

orderedItems == getValue("orderedItems", base("orderedItems"))

deliveredItems == getValue("deliveredItems", base("deliveredItems"))

returnedItems == getValue("returnedItems", base("returnedItems"))

profit == RAdd(totalSalesRevenue, totalCosts)

\* totalSalesRevenue ? (profit / totalSalesRevenue) * 100 : 0
calcRealMargin ==
    IF Truthy(totalSalesRevenue)
    THEN RMul(RDiv(profit, totalSalesRevenue), RInt(100))
    ELSE Zero

realMargin == getValue("realMargin", calcRealMargin)

\* A faulty payout: taken from the costs after tax.
calcPayoutToFactoryAfterTax == RAdd(totalSalesRevenue, RSub(totalCosts, totalCogs))

\* totalSalesRevenue + (preTaxCosts - totalCogs)
calcPayoutToFactory == RAdd(totalSalesRevenue, RSub(preTaxCosts, totalCogs))

payoutToFactory == getValue("payoutToFactory", calcPayoutToFactory)

\* value={...} of the StatsCard whose onOverride is updateOverride(key, val).
cardValue ==
    [key \in OverrideKeys |->
        CASE key = "orderedItems"           -> orderedItems
          [] key = "deliveredItems"         -> deliveredItems
          [] key = "returnedItems"          -> returnedItems
          [] key = "totalSalesRevenue"      -> totalSalesRevenue
          [] key = "revenue"                -> revenue
          [] key = "discountPoints"         -> discountPoints
          [] key = "partnerPrograms"        -> partnerPrograms
          [] key = "totalCosts"             -> totalCosts
          [] key = "totalCogs"              -> totalCogs
          [] key = "marketplaceCommission"  -> marketplaceCommission
          [] key = "logisticsCost"          -> logisticsCost
          [] key = "acquiringCost"          -> acquiringCost
          [] key = "returnsCost"            -> returnsCost
          [] key = "promotionCost"          -> promotionCost
          [] key = "additionalServicesCost" -> additionalServicesCost
          [] key = "crossDockingCost"       -> crossDockingCost
          [] key = "incomeTax"              -> incomeTax
          [] key = "profit"                 -> profit
          [] key = "realMargin"             -> realMargin
          [] key = "payoutToFactory"        -> payoutToFactory]

\* isOverridden={overrides[key] !== undefined}
isOverridden(key) == key \in DOMAIN overrides

\* updateOverride(key, value), value a number
setOverride(key, value) == (key :> value) @@ overrides

\* updateOverride(key, undefined)
deleteOverride(key) == [k \in (DOMAIN overrides) \ {key} |-> overrides[k]]

\* StatsCard.handleSave on the card of key, the user having typed num:
\* onOverride(isExpense ? -Math.abs(num) : Math.abs(num)).
\* The cards are rendered under the dashboard tab of a displayed result.
SaveOverride(key, num) ==
    /\ result # <<>>
    /\ activeTab = "dashboard"
    /\ overrides' = setOverride(key, IF key \in ExpenseKeys THEN RNeg(RAbs(num))
                                                            ELSE RAbs(num))
    /\ UNCHANGED <<pc, data, sums, articlesMap, result, activeTab, distributeAds, binary64, cellVars, pageVars, sorting, fileVars>>

\* StatsCard.handleReset; the button is rendered when isOverridden.
ResetOverride(key) ==
    /\ result # <<>>
    /\ activeTab = "dashboard"
    /\ key \in DOMAIN overrides
    /\ overrides' = deleteOverride(key)
    /\ UNCHANGED <<pc, data, sums, articlesMap, result, activeTab, distributeAds, binary64, cellVars, pageVars, sorting, fileVars>>

\* onClick={() => setActiveTab(tab)}.  ArticlesTable is mounted only while
\* activeTab is "articles": leaving the tab drops its state, and the next
\* mount starts from useState(false).
SetActiveTab(tab) ==
    /\ result # <<>>
    /\ activeTab' = tab
    /\ distributeAds' = IF tab = "articles" /\ activeTab = "articles"
                        THEN distributeAds ELSE FALSE
    /\ sorting' = IF tab = "articles" /\ activeTab = "articles"
                  THEN sorting ELSE defaultSorting
    /\ UNCHANGED <<pc, data, sums, articlesMap, result, overrides, binary64, cellVars, pageVars, fileVars>>

(***************************************************************************)
(* page.tsx: handleFile, loadDefaultReport, handleReset                    *)
(*                                                                         *)
(* A file is [name, readable, text, rows]: name the parts of its name, the *)
(* extension last; readable whether the FileReader loads it; text its      *)
(* lines; rows what Papa.parse makes of csvContent.  A call of handleFile  *)
(* is [file, state]: "pending" while it awaits parseReport, "settled"      *)
(* after its finally clause, "refused" when it threw before parseReport.   *)
(***************************************************************************)
\* file.name.endsWith(suffix)
endsWith(name, suffix) == name # <<>> /\ name[Len(name)] = suffix

\* The accumulators after results.data.forEach has visited rows[1..k].
RECURSIVE forEach(_, _)
forEach(rows, k) ==
    IF k = 0 THEN [sums |-> zeroSums, articlesMap |-> <<>>]
    ELSE LET before == forEach(rows, k - 1)
         IN  [sums        |-> accumulate(before.sums, rows[k]),
              articlesMap |-> aggregateArticle(before.articlesMap, rows[k])]

\* How the promise of parseReport(file) settles.
parseReport(file) ==
    IF ~file.readable
    THEN [state |-> "rejected", reason |-> "Failed to read file", value |-> <<>>]
    ELSE IF file.text = << <<>> >>
    THEN [state |-> "rejected", reason |-> "Empty file", value |-> <<>>]
    ELSE LET acc == forEach(file.rows, Len(file.rows))
         IN  [state |-> "fulfilled", reason |-> "",
              value |-> analysisResult(acc.sums, acc.articlesMap)]

\* handleFile(file) up to its await; for a name that does not end in
\* ".csv", the whole call.  setResult(null) unmounts the ArticlesTable.
handleFile(file) ==
    /\ result' = <<>>
    /\ distributeAds' = FALSE
    /\ sorting' = defaultSorting
    /\ IF endsWith(file.name, ".csv")
       THEN /\ isProcessing' = TRUE
            /\ error' = <<>>
            /\ calls' = Append(calls, [file |-> file, state |-> "pending"])
       ELSE /\ isProcessing' = FALSE
            /\ error' = <<"Please upload a CSV file with the Ozon report.">>
            /\ calls' = Append(calls, [file |-> file, state |-> "refused"])
    /\ UNCHANGED <<pc, data, sums, articlesMap, overrides, activeTab, binary64,
                   cellVars, fileVars>>

\* The rest of call i of handleFile, once parseReport has settled with
\* outcome: setResult(data) or the catch clause, then the finally clause.
handleFileSettles(i, outcome) ==
    /\ calls[i].state = "pending"
    /\ IF outcome.state = "fulfilled"
       THEN result' = <<outcome.value>> /\ UNCHANGED error
       ELSE error' = <<outcome.reason>> /\ UNCHANGED result
    /\ isProcessing' = FALSE
    /\ calls' = [calls EXCEPT ![i].state = "settled"]
    /\ UNCHANGED <<pc, data, sums, articlesMap, overrides, activeTab, distributeAds,
                   binary64, cellVars, fileVars, defaultReport, sorting>>

\* A faulty reset: the overrides are kept.
handleResetKeepsOverrides ==
    /\ result # <<>>
    /\ result' = <<>>
    /\ error' = <<>>
    /\ distributeAds' = FALSE
    /\ sorting' = defaultSorting
    /\ UNCHANGED <<pc, data, sums, articlesMap, overrides, activeTab, binary64,
                   cellVars, fileVars, isProcessing, calls, defaultReport>>

\* handleReset, the onUploadClick of the Header; its button is rendered
\* when showUploadButton, which is !!result.
handleReset ==
    /\ result # <<>>
    /\ result' = <<>>
    /\ overrides' = <<>>
    /\ error' = <<>>
    /\ distributeAds' = FALSE
    /\ sorting' = defaultSorting
    /\ UNCHANGED <<pc, data, sums, articlesMap, activeTab, binary64,
                   cellVars, fileVars, isProcessing, calls, defaultReport>>

\* part_001: handleSort(field).  The table sorts a copy,
\* [...enrichedArticles].sort(...), each time it is rendered; the handler
\* changes the two state variables only.
handleSort(field) ==
    /\ result # <<>>
    /\ activeTab = "articles"
    /\ sorting' = IF sorting.field = field
                  THEN [sorting EXCEPT
                           !.direction = IF sorting.direction = "asc" THEN "desc" ELSE "asc"]
                  ELSE [field |-> field, direction |-> "desc"]
    /\ UNCHANGED <<pc, data, sums, articlesMap, result, overrides, activeTab,
                   distributeAds, binary64, cellVars, fileVars, pageVars>>

(***************************************************************************)
(* Inputs: the rows a report may hold                                      *)
(***************************************************************************)
\* A sale of product A: total sales revenue 60000, cost of goods -800.
rowAlpha ==
    "SKU" :> "A"
    @@ "ProductName" :> "Alpha"
    @@ "Revenue" :> <<"4", "0", " ", "0", "0", "0">>
    @@ "DiscountPoints" :> <<"2", "0", "0", "0", "0">>
    @@ "OzonCommission" :> <<"-", "6", "0", "0", "0">>
    @@ "OrderedItems" :> <<"1", "2">>
    @@ "DeliveredItems" :> <<"1", "0">>
    @@ "ReturnedItems" :> <<"2">>
    @@ "ShipmentProcessing" :> <<"-", "5", "0", "0">>
    @@ "Logistics" :> <<"-", "1", "0", "0", "0">>
    @@ "Acquiring" :> <<"-", "6", "0", "0">>
    @@ "PayPerClick" :> <<"-", "3", "0", "0", "0">>
    @@ "CostPrice" :> <<"1", "0", "0">>

\* Refunds of product A under another display name: negative revenue,
\* more units returned than delivered, decimal commas and periods.
rowAlphaRefund ==
    "SKU" :> "A"
    @@ "ProductName" :> "Alpha2"
    @@ "Revenue" :> <<"-", "2", "0", "0", "0", "0">>
    @@ "DeliveredItems" :> <<"1">>
    @@ "ReturnedItems" :> <<"3">>
    @@ "ReturnProcessing" :> <<"-", "1", ",", "5">>
    @@ "ReverseLogistics" :> <<"-", "2", ".", "5">>
    @@ "CostPrice" :> <<"1", "0", "0">>

\* A sale of product B, with a cell that is not a number.
rowBeta ==
    "SKU" :> "B"
    @@ "ProductName" :> "Beta"
    @@ "Revenue" :> <<"2", "0", "0", "0", "0">>
    @@ "PartnerPrograms" :> <<>>
    @@ "OrderedItems" :> <<"4">>
    @@ "DeliveredItems" :> <<"4">>
    @@ "Disposal" :> <<"-", "1", "0">>
    @@ "PayPerOrder" :> <<"-", "1", "0", "0", "0">>
    @@ "FeaturedListing" :> <<"a", "b", "c">>
    @@ "CostPrice" :> <<"5", "0">>

\* A row without SKU and with an empty name: no revenue, only costs.
rowNoSku ==
    "ProductName" :> ""
    @@ "DeliveredItems" :> <<"5">>
    @@ "PlacementCost" :> <<"-", "3", "0">>
    @@ "SellerErrorProcessing" :> <<"-", "7">>
    @@ "PaidBrand" :> <<"-", "4", "0">>

FileRows == {rowAlpha, rowAlphaRefund, rowBeta, rowNoSku}

\* A row with an empty SKU cell.
rowEmptySku ==
    "SKU" :> ""
    @@ "ProductName" :> "Gamma"
    @@ "Revenue" :> <<"5">>
    @@ "Acquiring" :> <<>>

\* A row of a table whose header line was not the report's header: none of
\* its columns is one the program reads.
rowJunk == ("Seller" :> <<"7">>) @@ ("Period" :> <<"1", "5">>)

\* The one data row of a small report: revenue 1000, discount points 50,
\* commission -150, acquiring -20, five units delivered at a cost of 40.
rowScenario ==
    "SKU" :> "S"
    @@ "ProductName" :> "Sole"
    @@ "Revenue" :> <<"1", "0", "0", "0">>
    @@ "DiscountPoints" :> <<"5", "0">>
    @@ "OzonCommission" :> <<"-", "1", "5", "0">>
    @@ "Acquiring" :> <<"-", "2", "0">>
    @@ "CostPrice" :> <<"4", "0">>
    @@ "DeliveredItems" :> <<"5">>
    @@ "OrderedItems" :> <<"5">>
    @@ [c \in NumericColumns |-> <<"0">>]

ReportRows == FileRows \cup {rowEmptySku, rowJunk, rowScenario}

\* Rows with a small revenue that is not negative: tenths and units.
RoundingRows ==
    {("SKU" :> "A") @@ ("Revenue" :> c) :
        c \in {<<"0", ".", "1">>, <<"0", ".", "2">>, <<"0", ".", "3">>, <<"1">>, <<"2">>}}
    \cup {("SKU" :> "B") @@ ("Revenue" :> <<"0", ".", "1">>)}

\* Lines of a report: the header, a line with one marker only, a line with
\* the words of both markers but not those of the second side by side, a
\* line of the preamble or of the data, and the empty line.
headerLine == <<"SKU", "Name", "Revenue", "Discount", "Points">>

revenueOnlyLine == <<"Revenue", "report">>

discountOnlyLine == <<"Discount", "Points">>

scatteredLine == <<"Discount", "Revenue", "Points">>

plainLine == <<"Seller">>

emptyLine == <<>>

\* A report with its header on the fifth line.
DefaultText == <<plainLine, plainLine, emptyLine, plainLine, headerLine, plainLine, plainLine>>

\* The cells of the rows that exercise the row decoder one column at a
\* time: an integer, a negative decimal with a comma, text, and the empty
\* cell.
DecodeCells == {<<"7">>, <<"-", "1", ",", "5">>, <<"a", "b", "c">>, <<>>}

\* Rows with a single numeric column.
OneColumnRows == {c :> v : c \in NumericColumns, v \in DecodeCells}

\* Rows with the three columns cost of goods is computed from.
CogsCells == {<<"1", "0", "0">>, <<"1", "0">>, <<"2">>}

CogsRows ==
    {("SKU" :> "A") @@ ("CostPrice" :> u) @@ ("DeliveredItems" :> d)
        @@ ("ReturnedItems" :> r) :
        u \in CogsCells \cup {<<"-", "3">>}, d \in CogsCells, r \in CogsCells}

DecodeRows == OneColumnRows \cup CogsRows \cup FileRows

\* The files the user submits: a report of product A, an empty file, a file
\* the reader fails on, and a file that is not a CSV file.
UserFiles ==
    {[name |-> <<"alpha", ".csv">>, readable |-> TRUE, text |-> DefaultText,
      rows |-> <<rowAlpha>>],
     [name |-> <<"empty", ".csv">>, readable |-> TRUE, text |-> <<emptyLine>>,
      rows |-> <<>>],
     [name |-> <<"lost", ".csv">>, readable |-> FALSE, text |-> DefaultText,
      rows |-> <<rowAlpha>>],
     [name |-> <<"report.csv", ".txt">>, readable |-> TRUE, text |-> DefaultText,
      rows |-> <<rowAlpha>>]}

\* new File([blob], "default_report.csv", { type: "text/csv" }): the default
\* report, of product B.
defaultFile ==
    [name |-> <<"default_report", ".csv">>, readable |-> TRUE, text |-> DefaultText,
     rows |-> <<rowBeta>>]

\* await parseReport(file), for each of these files.
settlement == [file \in UserFiles \cup {defaultFile} |-> parseReport(file)]

(***************************************************************************)
(* Specifications                                                          *)
(***************************************************************************)
\* Most rows of a report in Spec.
MaxRows == 3

\* Most rows of a report in SpecDecode.
MaxDecodeRows == 1

\* Most overrides set at the same time.
MaxOverrides == 1

\* The numbers the user types into a card.
EditNums == {RInt(5000)}

\* The cards the user edits in Spec: a reported field, a reported cost and
\* the derived metrics of the chain.  SaveOverride and ResetOverride are the
\* same for all twenty cards; the other thirteen differ only in the key.
EditedKeys ==
    {"revenue", "totalSalesRevenue", "totalCogs", "incomeTax", "totalCosts",
     "profit", "payoutToFactory"}

Init ==
    /\ pc = "parsing"
    /\ data = <<>>
    /\ sums = zeroSums
    /\ articlesMap = <<>>
    /\ result = <<>>
    /\ overrides = <<>>
    /\ activeTab = "dashboard"
    /\ distributeAds = FALSE
    /\ cell = <<>>
    /\ number = <<>>
    /\ text = DefaultText
    /\ headerLineIndex = locateHeaderLine(DefaultText)
    /\ promise = Pending
    /\ binary64 = [revenue |-> zero64, articles |-> <<>>]
    /\ isProcessing = TRUE
    /\ error = <<>>
    /\ calls = <<>>
    /\ defaultReport = "done"
    /\ sorting = defaultSorting

\* The forEach visits the next row of a report of at most MaxRows rows.
ForEachRow == Len(data) < MaxRows /\ \E row \in FileRows : ProcessRow(row)

SwitchTab == \E tab \in {"dashboard", "articles"} : SetActiveTab(tab)

EditCard ==
    \E key \in EditedKeys, num \in EditNums :
        /\ Cardinality(DOMAIN overrides \cup {key}) <= MaxOverrides
        /\ SaveOverride(key, num)

ResetCard == \E key \in EditedKeys : ResetOverride(key)

Next ==
    \/ ForEachRow
    \/ Complete
    \/ ToggleDistributeAds
    \/ SwitchTab
    \/ EditCard
    \/ ResetCard

\* The report pipeline and the display of its result.
Spec == Init /\ [][Next]_vars

\* The forEach visits the next row of a report of at most MaxDecodeRows
\* rows, each with one column or with the columns of the cost of goods.
DecodeRow == Len(data) < MaxDecodeRows /\ \E row \in DecodeRows : ProcessRow(row)

NextDecode ==
    \/ DecodeRow
    \/ Complete

\* The parser alone, on rows that exercise every column.
SpecDecode == Init /\ [][NextDecode]_vars

\* The characters of the cells parseCurrency is called on: digits, the
\* minus sign, both separators, the space and a currency sign.
Alphabet == {"1", "5", "-", ",", ".", " ", "R"}

\* Longest cell made of every combination of Alphabet.
MaxLen == 4

\* Cells longer than MaxLen.
SampleCells ==
    {<<"-", "1", " ", "2", "3", "4", ",", "5", "6", " ", "R">>,
     <<"1", ",", "2", "3", "4", ".", "5", "6">>,
     <<"1", ",", "2", "3", "4", ",", "5", "6">>,
     <<"1", "2", "3", "4", ".", "5", "0", " ", "R", ".">>,
     <<"a", "b", "c">>}

\* The cells of up to max characters, the longer samples and undefined.
CurrencyInputs(max) ==
    UNION {[1..k -> Alphabet] : k \in 0..max} \cup SampleCells \cup {Undefined}

InitCurrency ==
    /\ pc = "parsing"
    /\ data = <<>>
    /\ sums = zeroSums
    /\ articlesMap = <<>>
    /\ result = <<>>
    /\ overrides = <<>>
    /\ activeTab = "dashboard"
    /\ distributeAds = FALSE
    /\ cell \in CurrencyInputs(MaxLen)
    /\ number = <<>>
    /\ text = DefaultText
    /\ headerLineIndex = locateHeaderLine(DefaultText)
    /\ promise = Pending
    /\ binary64 = [revenue |-> zero64, articles |-> <<>>]
    /\ isProcessing = TRUE
    /\ error = <<>>
    /\ calls = <<>>
    /\ defaultReport = "done"
    /\ sorting = defaultSorting

\* The call parseCurrency(cell) returns.
ParseCell ==
    /\ number = <<>>
    /\ number' = <<parseCurrency(cell)>>
    /\ UNCHANGED <<pc, data, sums, articlesMap, result, overrides, activeTab,
                   distributeAds, cell, fileVars, binary64, pageVars, sorting>>

NextCurrency == ParseCell

\* parseCurrency alone, on every short cell.
SpecCurrency == InitCurrency /\ [][NextCurrency]_vars

\* Most lines of a file in SpecLocate.
MaxLines == 22

\* n lines of preamble.
plainText(n) == [i \in 1..n |-> plainLine]

\* Files of n lines with at most two lines that are not plain.
TextsOfLength(n) ==
    UNION {{[[plainText(n) EXCEPT ![p] = k1] EXCEPT ![q] = k2] :
               q \in p..n,
               k1 \in {headerLine, revenueOnlyLine, discountOnlyLine, scatteredLine},
               k2 \in {headerLine, emptyLine}} : p \in 1..n}

\* Files of up to max lines.
TextsUpTo(max) == UNION {TextsOfLength(n) : n \in 1..max}

InitLocate ==
    /\ pc = "reading"
    /\ data = <<>>
    /\ sums = zeroSums
    /\ articlesMap = <<>>
    /\ result = <<>>
    /\ overrides = <<>>
    /\ activeTab = "dashboard"
    /\ distributeAds = FALSE
    /\ cell = <<>>
    /\ number = <<>>
    /\ text \in TextsUpTo(MaxLines)
    /\ headerLineIndex = -1
    /\ promise = Pending
    /\ binary64 = [revenue |-> zero64, articles |-> <<>>]
    /\ isProcessing = TRUE
    /\ error = <<>>
    /\ calls = <<>>
    /\ defaultReport = "done"
    /\ sorting = defaultSorting

NextLocate ==
    \/ ReadFails
    \/ OnLoad

\* The reading of the file and the search for its header line.
SpecLocate == InitLocate /\ [][NextLocate]_vars

\* Most rows of a report in SpecReport.
MaxReportRows == 2

\* The empty file, a file of one line, a file of two empty lines, a file
\* with its header on the first line and a report with a preamble.
ReportTexts ==
    {<<emptyLine>>, <<plainLine>>, <<emptyLine, emptyLine>>,
     <<headerLine, plainLine, plainLine>>, DefaultText}

InitReport ==
    /\ pc = "reading"
    /\ data = <<>>
    /\ sums = zeroSums
    /\ articlesMap = <<>>
    /\ result = <<>>
    /\ overrides = <<>>
    /\ activeTab = "dashboard"
    /\ distributeAds = FALSE
    /\ cell = <<>>
    /\ number = <<>>
    /\ text \in ReportTexts
    /\ headerLineIndex = -1
    /\ promise = Pending
    /\ binary64 = [revenue |-> zero64, articles |-> <<>>]
    /\ isProcessing = TRUE
    /\ error = <<>>
    /\ calls = <<>>
    /\ defaultReport = "done"
    /\ sorting = defaultSorting

\* The forEach visits the next row of the at most MaxReportRows rows that
\* Papa.parse made of csvContent.
ReportRow == Len(data) < MaxReportRows /\ \E row \in ReportRows : ProcessRow(row)

NextReport ==
    \/ ReadFails
    \/ OnLoad
    \/ ReportRow
    \/ Complete

\* One call of parseReport from the reading of the file to the settling of
\* the promise.  The reader fires load or error, and the handlers run to
\* their end.
SpecReport == InitReport /\ [][NextReport]_vars /\ WF_vars(NextReport)

\* Most rows of a report in SpecRounding.
MaxRoundingRows == 3

\* One iteration of results.data.forEach, the revenue column also summed
\* in doubles.
RoundingRow ==
    /\ pc = "parsing"
    /\ Len(data) < MaxRoundingRows
    /\ \E row \in RoundingRows :
          /\ data' = Append(data, row)
          /\ sums' = accumulate(sums, row)
          /\ articlesMap' = aggregateArticle(articlesMap, row)
          /\ binary64' = accumulate64(binary64, articlesMap, row)
    /\ UNCHANGED <<pc, result, overrides, activeTab, distributeAds, cellVars, pageVars, sorting, fileVars>>

NextRounding ==
    \/ RoundingRow
    \/ Complete

\* The complete callback on rows of small revenues, the sums of the revenue
\* column computed as the doubles they are.
SpecRounding == Init /\ [][NextRounding]_vars

\* Most calls of handleFile in SpecPage.
MaxSubmissions == 3

\* The cards the user edits and the columns the user sorts by in SpecPage.
PageKeys == {"revenue", "profit"}

SortFields == {"revenue", "profit"}

\* The page after its first render: nothing on display, the effect that
\* loads the default report has started its fetch.  The position inside one
\* call of parseReport is not followed here: parseReport(file) gives the
\* settlement of each call.
InitPage ==
    /\ pc = "reading"
    /\ data = <<>>
    /\ sums = zeroSums
    /\ articlesMap = <<>>
    /\ result = <<>>
    /\ overrides = <<>>
    /\ activeTab = "dashboard"
    /\ distributeAds = FALSE
    /\ cell = <<>>
    /\ number = <<>>
    /\ text = DefaultText
    /\ headerLineIndex = -1
    /\ promise = Pending
    /\ binary64 = [revenue |-> zero64, articles |-> <<>>]
    /\ isProcessing = FALSE
    /\ error = <<>>
    /\ calls = <<>>
    /\ defaultReport = "fetching"
    /\ sorting = defaultSorting

\* onDrop and onFileInputChange.  The drop zone is rendered when !result,
\* and with pointer-events-none while isProcessing.
OnDrop ==
    /\ result = <<>>
    /\ ~isProcessing
    /\ Len(calls) < MaxSubmissions
    /\ \E file \in UserFiles : handleFile(file)
    /\ UNCHANGED defaultReport

\* loadDefaultReport: the fetch has answered and the blob is read.
DefaultReportLoaded ==
    /\ defaultReport = "fetching"
    /\ Len(calls) < MaxSubmissions
    /\ defaultReport' = "done"
    /\ handleFile(defaultFile)

\* loadDefaultReport: !response.ok, or fetch threw.
DefaultReportMissing ==
    /\ defaultReport = "fetching"
    /\ defaultReport' = "done"
    /\ UNCHANGED <<pc, data, sums, articlesMap, result, overrides, activeTab,
                   distributeAds, binary64, cellVars, fileVars, isProcessing, error,
                   calls, sorting>>

ParseSettles ==
    \E i \in 1..Len(calls) : handleFileSettles(i, settlement[calls[i].file])

SortTable == \E field \in SortFields : handleSort(field)

EditPageCard ==
    \E key \in PageKeys, num \in EditNums :
        /\ Cardinality(DOMAIN overrides \cup {key}) <= MaxOverrides
        /\ SaveOverride(key, num)

ResetPageCard == \E key \in PageKeys : ResetOverride(key)

NextPage ==
    \/ OnDrop
    \/ DefaultReportLoaded
    \/ DefaultReportMissing
    \/ ParseSettles
    \/ handleReset
    \/ SortTable
    \/ ToggleDistributeAds
    \/ SwitchTab
    \/ EditPageCard
    \/ ResetPageCard

\* The page: submissions of files, the default report, and the display.
SpecPage == InitPage /\ [][NextPage]_vars

TypeOK ==
    /\ pc \in {"reading", "failed", "parsing", "done"}
    /\ headerLineIndex \in -1..(Len(text) - 1)
    /\ promise.state \in {"pending", "fulfilled", "rejected"}
    /\ Len(data) <= MaxRows
    /\ \A f \in LedgerFields : IsFinite(sums[f])
    /\ Len(result) <= 1
    /\ DOMAIN overrides \subseteq OverrideKeys
    /\ activeTab \in {"dashboard", "articles"}
    /\ distributeAds \in BOOLEAN
    /\ isProcessing \in BOOLEAN
    /\ Len(error) <= 1
    /\ defaultReport \in {"fetching", "done"}
    /\ sorting.direction \in {"asc", "desc"}

(***************************************************************************)
(* Properties                                                              *)
(***************************************************************************)
\* The AnalysisResult on display.
shown == result[1]

\* The sum of field f over a sequence of ledgers.
FieldSum(ledgers, f) == RSum([i \in 1..Len(ledgers) |-> ledgers[i][f]])

ReportedCostFields ==
    <<"marketplaceCommission", "logisticsCost", "acquiringCost", "returnsCost",
      "additionalServicesCost", "totalCogs">>

ReportedCosts(ledger) == RSum([i \in 1..6 |-> ledger[ReportedCostFields[i]]])

SalesFields(ledger) == RSum(<<ledger.revenue, ledger.discountPoints, ledger.partnerPrograms>>)

\* The chain of C2 for one row e of the table.
ChainOfArticle(e) ==
    /\ e.totalSalesRevenue = SalesFields(e)
    /\ RMul(e.crossDocking, RInt(1000)) = RMul(e.totalSalesRevenue, RInt(-15))
    /\ e.totalCosts = RAdd(ReportedCosts(e), RAdd(e.finalPromotionCost, e.crossDocking))
    /\ e.profitPreTax = RAdd(e.totalSalesRevenue, e.totalCosts)
    /\ e.profit = RAdd(e.profitPreTax, e.incomeTax)

\* The chain of C2 for the grand total on the dashboard; promotionCost is
\* the dashboard's final promotion cost.
ChainOfDashboard ==
    /\ totalSalesRevenue = SalesFields(shown)
    /\ RMul(crossDockingCost, RInt(1000)) = RMul(totalSalesRevenue, RInt(-15))
    /\ preTaxCosts = RAdd(ReportedCosts(shown), RAdd(promotionCost, crossDockingCost))
    /\ preTaxProfit = RAdd(totalSalesRevenue, preTaxCosts)
    /\ profit = RAdd(preTaxProfit, incomeTax)

\* C2. For every row of the articles table, and for the grand total on the
\* dashboard while no override is set: totalSalesRevenue = revenue +
\* discountPoints + partnerPrograms; crossDocking = -(1.5% of it);
\* totalCostsPreTax = the six reported costs + finalPromotionCost +
\* crossDocking; profitPreTax = totalSalesRevenue + totalCostsPreTax;
\* profit = profitPreTax + incomeTax.
C2_DerivationChain ==
    result # <<>> =>
        /\ LET table == enrichedArticles
           IN  \A i \in 1..Len(articles) : LET e == table[i] IN ChainOfArticle(e)
        /\ DOMAIN overrides = {} => ChainOfDashboard

\* A displayed report of two products with every link of the chain non-zero.
C2_Witness ==
    /\ result # <<>>
    /\ DOMAIN overrides = {}
    /\ Len(articles) = 2
    /\ LET table == enrichedArticles
       IN  \A i \in 1..2 :
              LET e == table[i]
              IN  /\ RPos(e.totalSalesRevenue)
                  /\ RNegative(e.crossDocking)
                  /\ RNegative(e.incomeTax)
    /\ RNegative(incomeTax)
    /\ RNegative(totalCogs)

\* incomeTax as C3 states it, from the pre-tax profit.
TaxRule(tax, preTax, net) ==
    /\ RPos(preTax) => RMul(tax, RInt(4)) = RNeg(preTax)
    /\ ~RPos(preTax) => tax = Zero
    /\ RLeq(tax, Zero)
    /\ RLeq(net, preTax)

\* C3. For every ledger, incomeTax = -(0.25 x profitPreTax) when
\* profitPreTax > 0 and 0 otherwise; so incomeTax is never positive and
\* profit <= profitPreTax.
C3_IncomeTax ==
    result # <<>> =>
        /\ LET table == enrichedArticles
           IN  \A i \in 1..Len(articles) :
                  LET e == table[i]
                  IN  TaxRule(e.incomeTax, e.profitPreTax, e.profit)
        /\ DOMAIN overrides = {} => TaxRule(incomeTax, preTaxProfit, profit)

\* A displayed report with a profitable product and a loss-making one.
C3_Witness ==
    /\ result # <<>>
    /\ DOMAIN overrides = {}
    /\ LET table == enrichedArticles
       IN  \E i, j \in 1..Len(articles) :
              /\ RPos(table[i].profitPreTax)
              /\ RNegative(table[i].incomeTax)
              /\ RNegative(table[j].profitPreTax)
              /\ table[j].incomeTax = Zero

\* C4. For every product ledger, revenueShare = its totalSalesRevenue /
\* the grand-total totalSalesRevenue whenever the grand total is non-zero,
\* a negative grand total included, and 0 only when the grand total is 0;
\* subscriptionAllocation = -(24990 x revenueShare).
C4_RevenueShareOfGrandTotal ==
    result # <<>> =>
        LET table == enrichedArticles
            grand == SalesFields(shown)
        IN  \A i \in 1..Len(articles) :
               LET e == table[i]
               IN  /\ grand # Zero =>
                         e.revenueShare = RDiv(e.totalSalesRevenue, grand)
                   /\ grand = Zero => e.revenueShare = Zero
                   /\ e.subscription = RNeg(RMul(RInt(24990), e.revenueShare))

\* C5. For every product ledger, adSpend is the ledger's own promotionCost
\* when distributeAds is false and -(|grand-total promotionCost| x
\* revenueShare) when it is true; finalPromotionCost = adSpend +
\* subscriptionAllocation in both modes.
C5_AdSpend ==
    result # <<>> =>
        LET table == enrichedArticles
        IN  \A i \in 1..Len(articles) :
               LET e == table[i]
                   adSpend ==
                     IF distributeAds
                     THEN RNeg(RMul(RAbs(shown.promotionCost), e.revenueShare))
                     ELSE shown.articles[i].promotionCost
               IN  e.finalPromotionCost = RAdd(adSpend, e.subscription)

\* Ad spend redistributed between two products with different ad spend of
\* their own.
C5_Witness ==
    /\ result # <<>>
    /\ distributeAds
    /\ Len(articles) = 2
    /\ RNegative(shown.promotionCost)
    /\ articles[1].promotionCost # articles[2].promotionCost
    /\ LET table == enrichedArticles
       IN  \A i \in 1..2 :
              LET e == table[i]
              IN  /\ RPos(e.revenueShare)
                  /\ RSub(e.finalPromotionCost, e.subscription) # articles[i].promotionCost

NoDivisionByZero ==
    /\ LET table == enrichedArticles
       IN  \A i \in 1..Len(articles) :
              LET e == table[i]
              IN  \A f \in {"revenueShare", "subscription", "finalPromotionCost",
                            "totalCosts", "profit", "margin", "incomeTax", "avgPrice"} :
                     IsFinite(e[f])
    /\ IsFinite(calcRealMargin)
    /\ IsFinite(calcPayoutToFactory)

\* C7. For every ledger whose totalSalesRevenue is 0: margin = 0,
\* avgPrice = 0 and revenueShare = 0, so that neither subscription nor
\* redistributed ad spend is allocated to it; and no derived metric is the
\* result of a division by zero.  The ledgers are the rows of the table
\* and the grand total on the dashboard (no override set), whose
\* allocation of the subscription is what it adds to the promotion cost.
C7_ZeroRevenueLedger ==
    result # <<>> =>
        /\ LET table == enrichedArticles
           IN  \A i \in 1..Len(articles) :
                  LET e == table[i]
                  IN  e.totalSalesRevenue = Zero =>
                         /\ e.margin = Zero
                         /\ e.avgPrice = Zero
                         /\ e.revenueShare = Zero
                         /\ e.subscription = Zero
                         /\ distributeAds => e.finalPromotionCost = Zero
        /\ (DOMAIN overrides = {} /\ totalSalesRevenue = Zero) =>
              /\ realMargin = Zero
              /\ RSub(promotionCost, shown.promotionCost) = Zero
        /\ NoDivisionByZero

\* C8. On the grand-total view with no override set, payoutToFactory =
\* totalSalesRevenue + (totalCostsPreTax - cogs): totalSalesRevenue plus
\* every pre-tax cost other than the cost of goods; neither incomeTax nor
\* cogs enters it.
C8_PayoutToFactory ==
    (result # <<>> /\ DOMAIN overrides = {}) =>
        LET sales == SalesFields(shown)
        IN  /\ payoutToFactory = RAdd(totalSalesRevenue, RSub(preTaxCosts, totalCogs))
            /\ payoutToFactory =
                  RSum(<<sales,
                         shown.marketplaceCommission, shown.logisticsCost,
                         shown.acquiringCost, shown.returnsCost,
                         shown.additionalServicesCost,
                         RSub(shown.promotionCost, RInt(24990)),
                         RNeg(RMul(sales, Rat(15, 1000)))>>)

\* A displayed report, no override set, with income tax due and a cost of
\* goods.
C8_Witness ==
    /\ result # <<>>
    /\ DOMAIN overrides = {}
    /\ RNegative(incomeTax)
    /\ RNegative(totalCogs)
    /\ RPos(payoutToFactory)

\* The report columns C9 gives for each field.
SourceColumns ==
    [revenue                |-> {"Revenue"},
     discountPoints         |-> {"DiscountPoints"},
     partnerPrograms        |-> {"PartnerPrograms"},
     marketplaceCommission  |-> {"OzonCommission"},
     orderedItems           |-> {"OrderedItems"},
     deliveredItems         |-> {"DeliveredItems"},
     returnedItems          |-> {"ReturnedItems"},
     logisticsCost          |-> {"ShipmentProcessing", "Logistics",
                                 "DeliveryToPickupPoint", "PlacementCost"},
     acquiringCost          |-> {"Acquiring"},
     returnsCost            |-> {"ReturnProcessing", "ReverseLogistics"},
     additionalServicesCost |-> {"Disposal", "SellerErrorProcessing"},
     promotionCost          |-> {"PayPerClick", "PayPerOrder", "FeaturedListing",
                                 "PaidBrand"}]

\* The sum of the values of row's cells in the columns cols.
RECURSIVE ColumnsSum(_, _)
ColumnsSum(row, cols) ==
    IF cols = {} THEN Zero
    ELSE LET c == CHOOSE x \in cols : TRUE
         IN  RAdd(getVal(row, c), ColumnsSum(row, cols \ {c}))

\* -(unitCost x (deliveredItems - returnedItems)) of a row.
ExpectedCogs(row) ==
    RSub(RMul(getVal(row, "CostPrice"), getVal(row, "ReturnedItems")),
         RMul(getVal(row, "CostPrice"), getVal(row, "DeliveredItems")))

CogsOfRow(row) ==
    [unitCost  |-> getVal(row, "CostPrice"),
     delivered |-> getVal(row, "DeliveredItems"),
     returned  |-> getVal(row, "ReturnedItems"),
     cogs      |-> rowCogs(row)]

\* unitCost >= 0 and deliveredItems >= returnedItems.
CogsPrecondition(c) == RLeq(Zero, c.unitCost) /\ RLeq(c.returned, c.delivered)

NumericChars == Digits \cup {"-", ",", "."}

\* s without the characters that are not numeric.
RECURSIVE KeepNumeric(_)
KeepNumeric(s) ==
    IF s = <<>> THEN <<>>
    ELSE IF Head(s) \in NumericChars THEN <<Head(s)>> \o KeepNumeric(Tail(s))
    ELSE KeepNumeric(Tail(s))

\* s with its first comma, if any, turned into a period.
RECURSIVE FirstCommaToPeriod(_)
FirstCommaToPeriod(s) ==
    IF s = <<>> THEN <<>>
    ELSE IF Head(s) = "," THEN <<".">> \o Tail(s)
    ELSE <<Head(s)>> \o FirstCommaToPeriod(Tail(s))

\* The natural number a sequence of digits writes.
RECURSIVE NatOf(_)
NatOf(ds) ==
    IF ds = <<>> THEN 0
    ELSE 10 * NatOf(SubSeq(ds, 1, Len(ds) - 1)) + DigitVal(ds[Len(ds)])

\* t is: an optional minus sign, digits, at most one separator among seps
\* anywhere from the first digit position on, and at least one digit.
IsLiteral(t, seps) ==
    LET from == IF Len(t) >= 1 /\ t[1] = "-" THEN 2 ELSE 1
        at   == {p \in from..Len(t) : t[p] \in seps}
    IN  /\ Cardinality(at) <= 1
        /\ \A p \in (from..Len(t)) \ at : t[p] \in Digits
        /\ \E p \in from..Len(t) : t[p] \in Digits

\* t is  -? digits ( [.,] digits )?
IsDecimal(t) ==
    /\ IsLiteral(t, {".", ","})
    /\ t[Len(t)] \in Digits
    /\ t[IF t[1] = "-" THEN 2 ELSE 1] \in Digits

\* The signed decimal value a literal denotes, its separator read as the
\* decimal point.
DecimalOf(t) ==
    LET at       == {p \in 1..Len(t) : t[p] \in {".", ","}}
        decimals == IF at = {} THEN 0 ELSE Len(t) - (CHOOSE p \in at : TRUE)
        all      == NatOf(SelectSeq(t, LAMBDA c : c \in Digits))
    IN  Rat(IF t[1] = "-" THEN -all ELSE all, Pow10(decimals))

\* The value of the longest prefix of t that is a literal with a period,
\* and 0 when no prefix is one.
PrefixValue(t) ==
    LET ks == {k \in 1..Len(t) : IsLiteral(SubSeq(t, 1, k), {"."})}
    IN  IF ks = {} THEN Zero
        ELSE DecimalOf(SubSeq(t, 1, CHOOSE k \in ks : \A j \in ks : j <= k))

\* C11. parseCurrency is total: for every input (empty, undefined, any
\* string) the call returns a finite number and raises nothing; it returns 0 for
\* the empty and the undefined input and for every string that does not
\* parse to a number after cleaning, "abc", "-", "." and "--5" among them.
C11_ParseCurrencyTotal ==
    number # <<>> =>
      LET clean == FirstCommaToPeriod(KeepNumeric(cell))
      IN  /\ number[1] \in [n : Int, d : Nat \ {0}]
          /\ cell \in {<<>>, Undefined} => number[1] = Zero
          /\ (cell # Undefined /\ \A k \in 1..Len(clean) :
                 ~IsLiteral(SubSeq(clean, 1, k), {"."})) => number[1] = Zero
          /\ cell \in {<<"a", "b", "c">>, <<"-">>, <<".">>, <<"-", "-", "5">>}
                => number[1] = Zero

\* parseCurrency has returned from "--5".
C11_Witness == cell = <<"-", "-", "5">> /\ number = <<Zero>>

\* C12. For every string of the form optional minus, digits, optional
\* single '.' or ',' followed by digits, also with spaces or currency signs
\* interleaved, parseCurrency returns exactly the signed decimal value the
\* string denotes, ',' read as the decimal separator; the sign is retained.
C12_DecimalsParseExactly ==
    (number # <<>> /\ cell # Undefined /\ cell # <<>>) =>
        LET t == KeepNumeric(cell)
        IN  (t # <<>> /\ IsDecimal(t)) =>
               /\ number[1] = DecimalOf(t)
               /\ (t[1] = "-" /\ number[1] # Zero) => RNegative(number[1])

\* parseCurrency has returned -1234.56 from "-1 234,56 R".
C12_Witness ==
    /\ cell = <<"-", "1", " ", "2", "3", "4", ",", "5", "6", " ", "R">>
    /\ number = <<Rat(-123456, 100)>>

\* C13. parseCurrency removes every character other than digits, '-', ','
\* and '.', turns only the first remaining comma into a period, then
\* parses: the value is that of the leading numeric prefix of the cleaned
\* string, so that "1,234.56" gives 1.234 and "1,234,56" gives 1.234.
C13_FirstCommaOnly ==
    (number # <<>> /\ cell # Undefined) =>
        /\ number[1] = PrefixValue(FirstCommaToPeriod(KeepNumeric(cell)))
        /\ cell = <<"1", ",", "2", "3", "4", ".", "5", "6">>
              => number[1] = Rat(1234, 1000)
        /\ cell = <<"1", ",", "2", "3", "4", ",", "5", "6">>
              => number[1] = Rat(1234, 1000)

\* parseCurrency has returned 1.234 from "1,234.56".
C13_Witness ==
    /\ cell = <<"1", ",", "2", "3", "4", ".", "5", "6">>
    /\ number = <<Rat(1234, 1000)>>

(***************************************************************************)
(* The header locator                                                      *)
(***************************************************************************)
\* The line at 0-based index i contains the revenue marker, the
\* discount-points marker.
HasRevenue(i) == includes(text[i + 1], revenueMarker)

HasDiscount(i) == includes(text[i + 1], discountMarker)

\* The indexes, below min(number of lines, 20), of the lines with both
\* markers.
Matches ==
    {i \in 0..(Len(text) - 1) : i < 20 /\ HasRevenue(i) /\ HasDiscount(i)}

\* The header index has been computed.
Located == pc = "parsing" /\ headerLineIndex >= 0

\* C14, as stated. The header locator returns the smallest index below
\* min(number of lines, 20) whose line contains both markers; a line with
\* only one marker is never chosen, and a line at index >= 20 is never
\* chosen even if it contains both markers.
C14_HeaderIsFirstLineWithBothMarkers ==
    Located =>
        /\ Matches # {} =>
              headerLineIndex \in Matches /\ \A i \in Matches : headerLineIndex <= i
        /\ HasRevenue(headerLineIndex) = HasDiscount(headerLineIndex)
        /\ headerLineIndex < 20

\* C14, amended. The header locator returns the smallest index below
\* min(number of lines, 20) whose line contains both markers, when there is
\* one; a line with only one marker is chosen only when there is none and
\* the line is the fallback line (index 3, or index 0 of a file of fewer
\* than 4 lines); a line at index >= 20 is never chosen, even if it contains
\* both markers.
C14_HeaderScan ==
    Located =>
        /\ Matches # {} =>
              headerLineIndex \in Matches /\ \A i \in Matches : headerLineIndex <= i
        /\ HasRevenue(headerLineIndex) # HasDiscount(headerLineIndex) =>
              /\ Matches = {}
              /\ headerLineIndex = IF Len(text) >= 4 THEN 3 ELSE 0
        /\ headerLineIndex < 20

\* The scan has passed over a line with one marker and stopped at a later
\* line with both.
C14_Witness ==
    /\ Located
    /\ headerLineIndex > 0
    /\ HasRevenue(headerLineIndex) /\ HasDiscount(headerLineIndex)
    /\ \E i \in 0..(headerLineIndex - 1) : HasRevenue(i) # HasDiscount(i)

\* C15. When no line within the scanned window contains both markers, the
\* header index is 3 if the file has at least 4 lines and 0 if it has
\* fewer; in the latter case a non-empty file is parsed from line 0, and
\* parseReport does not fail with the empty-input error.
C15_FallbackHeader ==
    /\ (Located /\ Matches = {}) =>
          /\ Len(text) >= 4 => headerLineIndex = 3
          /\ Len(text) < 4 => headerLineIndex = 0 /\ csvContent = text
    /\ (Len(text) < 4 /\ ~emptyText /\ Matches = {}) =>
          /\ promise.reason # "Empty file"
          /\ pc = "failed" => promise.reason = "Failed to read file"

\* A file of two lines without markers, parsed from its first line.
C15_Witness ==
    /\ Located
    /\ Len(text) = 2
    /\ Matches = {}
    /\ headerLineIndex = 0
    /\ csvContent = text

(***************************************************************************)
(* The outcome of parseReport                                              *)
(***************************************************************************)
\* The promise is rejected only for the empty text and for a failed read:
\* once the load handler has found a non-empty text it is never rejected.
RejectedOnlyForEmptyOrUnread ==
    /\ promise.state = "rejected" =>
          \/ promise.reason = "Empty file" /\ emptyText
          \/ promise.reason = "Failed to read file"
    /\ pc \in {"parsing", "done"} => ~emptyText /\ promise.state # "rejected"

\* resolve and reject have been called once when parseReport is over, and
\* not at all before.
SettledOnce ==
    /\ promise.settled <= 1
    /\ promise.settled = 1 <=> pc \in {"failed", "done"}
    /\ promise.state = "fulfilled" <=> pc = "done"
    /\ pc = "done" => result # <<>>

\* C16. parseReport ends with an error only when the file's text is empty
\* or the read of the file fails; for every non-empty text that was read it
\* resolves with an AnalysisResult, whatever its header position, columns
\* and cells; each call settles exactly once.
C16_ErrorsOnlyForEmptyOrUnread ==
    /\ [](RejectedOnlyForEmptyOrUnread /\ SettledOnce)
    /\ (pc = "parsing") ~> (promise.state = "fulfilled")
    /\ <>[](promise.settled = 1)

\* parseReport has resolved on a file without header line whose rows have
\* none of the expected columns.
C16_Witness ==
    /\ promise = [state |-> "fulfilled", reason |-> "", settled |-> 1]
    /\ text = <<plainLine>>
    /\ data = <<rowJunk>>

(***************************************************************************)
(* Missing columns and product keys                                        *)
(***************************************************************************)
\* The column is absent from the row or its cell is empty.
Missing(row, c) == c \notin DOMAIN row \/ row[c] = <<>>

\* The row with "0" in every numeric column that is absent or empty.
Filled(row) ==
    [c \in NumericColumns \cup DOMAIN row |->
        IF c \in NumericColumns /\ Missing(row, c) THEN <<"0">> ELSE row[c]]

\* None of the columns the program reads exists in the rows visited.
NoExpectedColumn ==
    \A i \in 1..Len(data) :
        DOMAIN data[i] \cap (NumericColumns \cup {"SKU", "ProductName"}) = {}

\* Every numeric field of the ledger is 0.
AllZero(ledger) == \A f \in LedgerFields : ledger[f] = Zero

\* C17. A row in which an expected column is absent or empty contributes
\* exactly 0 for every field read from that column, and raises no error:
\* the totals are those of the rows with 0 written in these cells.  If none
\* of the expected columns exists, every numeric field of the grand total
\* and of every product ledger is 0.
C17_MissingColumnsCountZero ==
    /\ \A i \in 1..Len(data) :
          /\ \A c \in NumericColumns : Missing(data[i], c) => getVal(data[i], c) = Zero
          /\ rowAmounts(data[i]) = rowAmounts(Filled(data[i]))
    /\ \A f \in LedgerFields :
          sums[f] = RSum([i \in 1..Len(data) |-> rowAmounts(Filled(data[i]))[f]])
    /\ Len(data) > 0 => pc \in {"parsing", "done"} /\ promise.state # "rejected"
    /\ NoExpectedColumn =>
          /\ AllZero(sums)
          /\ \A k \in 1..Len(articlesMap) : AllZero(articlesMap[k])
          /\ result # <<>> =>
                /\ AllZero(shown)
                /\ \A k \in 1..Len(articles) : AllZero(articles[k])

\* parseReport has resolved on two rows of a table without any expected
\* column.
C17_Witness ==
    /\ pc = "done"
    /\ data = <<rowJunk, rowJunk>>
    /\ Len(articles) = 1
    /\ AllZero(shown)

\* The product key of a row.
KeyOf(row) == IF "SKU" \in DOMAIN row /\ row["SKU"] # "" THEN row["SKU"] ELSE "Unknown"

\* The rows visited whose key is key, in the order of the visit.
RowsOfKey(key) == SelectSeq(data, LAMBDA row : KeyOf(row) = key)

\* C18. Every row whose SKU is absent or empty is aggregated into a single
\* product ledger with key "Unknown"; there is at most one ledger per key,
\* and the number of product ledgers is the number of distinct keys, the
\* rows without SKU counting as one key.
C18_UnknownKey ==
    LET keys == {KeyOf(data[i]) : i \in 1..Len(data)}
    IN  /\ {articlesMap[k].sku : k \in 1..Len(articlesMap)} = keys
        /\ Len(articlesMap) = Cardinality(keys)
        /\ \A k \in 1..Len(articlesMap) :
              LET rows == RowsOfKey(articlesMap[k].sku)
              IN  \A f \in LedgerFields :
                     articlesMap[k][f] =
                        RSum([i \in 1..Len(rows) |-> rowAmounts(rows[i])[f]])
        /\ result # <<>> => articles = articlesMap

\* A row without SKU column and a row with an empty SKU cell, aggregated
\* into the one ledger "Unknown".
C18_Witness ==
    /\ pc = "done"
    /\ data = <<rowNoSku, rowEmptySku>>
    /\ Len(articles) = 1
    /\ articles[1].sku = "Unknown"
    /\ articles[1].revenue = RInt(5)
    /\ articles[1].deliveredItems = RInt(5)

\* The display name of a row.
NameOf(row) ==
    IF "ProductName" \in DOMAIN row /\ row["ProductName"] # ""
    THEN row["ProductName"] ELSE "Unknown"

\* C19. The per-product collection of an AnalysisResult lists the product
\* keys in the order of their first occurrence among the rows, and each
\* ledger's display name is the name of the first row with its key.
C19_FirstOccurrence ==
    /\ \A j, k \in 1..Len(articlesMap) :
          j < k =>
             \E i \in 1..Len(data) :
                /\ KeyOf(data[i]) = articlesMap[j].sku
                /\ \A h \in 1..i : KeyOf(data[h]) # articlesMap[k].sku
    /\ \A k \in 1..Len(articlesMap) :
          articlesMap[k].name = NameOf(RowsOfKey(articlesMap[k].sku)[1])
    /\ result # <<>> =>
          \A k \in 1..Len(articlesMap) :
             /\ articles[k].sku = articlesMap[k].sku
             /\ articles[k].name = articlesMap[k].name

\* Product A, then B, then A again under another name.
C19_Witness ==
    /\ pc = "done"
    /\ data = <<rowAlpha, rowBeta, rowAlphaRefund>>
    /\ Len(articles) = 2
    /\ articles[1].sku = "A" /\ articles[1].name = "Alpha"
    /\ articles[2].sku = "B"

(***************************************************************************)
(* Row order                                                               *)
(***************************************************************************)
\* The accumulators after the forEach has visited rows[1..k].
RECURSIVE FoldRows(_, _)
FoldRows(rows, k) ==
    IF k = 0
    THEN [sums |-> zeroSums, articlesMap |-> <<>>,
          binary64 |-> [revenue |-> zero64, articles |-> <<>>]]
    ELSE LET before == FoldRows(rows, k - 1)
         IN  [sums        |-> accumulate(before.sums, rows[k]),
              articlesMap |-> aggregateArticle(before.articlesMap, rows[k]),
              binary64    |-> accumulate64(before.binary64, before.articlesMap, rows[k])]

\* The numeric fields of the ledger of key in the accumulators acc, its
\* revenue as a double included.
LedgerOfKey(acc, key) ==
    LET k == CHOOSE k \in 1..Len(acc.articlesMap) : acc.articlesMap[k].sku = key
    IN  [fields    |-> [f \in LedgerFields |-> acc.articlesMap[k][f]],
         revenue64 |-> acc.binary64.articles[k]]

\* C20. For every permutation of the same rows, the grand-total numeric
\* fields and, for each product key, the numeric fields of its ledger are
\* identical; only the display name retained and the order of the ledgers
\* may differ.
C20_RowOrderIrrelevant ==
    LET here == [sums |-> sums, articlesMap |-> articlesMap, binary64 |-> binary64]
    IN  \A perm \in Permutations(1..Len(data)) :
           LET other == FoldRows([i \in 1..Len(data) |-> data[perm[i]]], Len(data))
           IN  /\ other.sums = here.sums
               /\ other.binary64.revenue = here.binary64.revenue
               /\ \A key \in {KeyOf(data[i]) : i \in 1..Len(data)} :
                     LedgerOfKey(other, key) = LedgerOfKey(here, key)

(***************************************************************************)
(* End to end                                                              *)
(***************************************************************************)
\* The report of the scenario has been analysed: a preamble, the header
\* within the scanned lines, and the one row.
ScenarioAnalysed ==
    /\ pc = "done"
    /\ headerLineIndex \in 1..(ScanWindow - 1)
    /\ includes(text[headerLineIndex + 1], revenueMarker)
    /\ includes(text[headerLineIndex + 1], discountMarker)
    /\ data = <<rowScenario>>

\* C21. A file with preamble lines before a header within the first 20
\* lines and one data row (revenue 1000, discount points 50, partner
\* programs 0, commission -150, acquiring -20, cost price 40, 5 delivered, 0
\* returned) gives totalSalesRevenue 1050 and cost of goods -200, and for the
\* sole product cross docking -15.75, subscription -24990, a negative profit
\* before tax, income tax 0, profit equal to the profit before tax and a
\* negative margin.
C21_EndToEnd ==
    ScenarioAnalysed =>
        LET e == enrichedArticles[1]
        IN  /\ promise.state = "fulfilled"
            /\ Len(articles) = 1
            /\ totalSalesRevenue = RInt(1050)
            /\ shown.totalCogs = RInt(-200)
            /\ e.totalSalesRevenue = RInt(1050)
            /\ e.totalCogs = RInt(-200)
            /\ e.crossDocking = Rat(-1575, 100)
            /\ e.subscription = RInt(-24990)
            /\ RNegative(e.profitPreTax)
            /\ e.incomeTax = Zero
            /\ e.profit = e.profitPreTax
            /\ RNegative(e.margin)

C21_Witness ==
    /\ ScenarioAnalysed
    /\ enrichedArticles[1].profitPreTax = Rat(-2432575, 100)

(***************************************************************************)
(* Submissions                                                             *)
(***************************************************************************)
InFlight == {i \in 1..Len(calls) : calls[i].state = "pending"}

\* The settlement of the most recent call of handleFile.
LatestOutcome == settlement[calls[Len(calls)].file]

\* C22. If a file B is submitted while the parse of an earlier file A is in
\* flight, then once both have settled the displayed result is B's: the
\* late result of A never replaces the outcome of the more recent
\* submission.
C22_LatestSubmissionWins ==
    (Len(calls) >= 2 /\ InFlight = {} /\ result # <<>>) =>
        /\ calls[Len(calls)].state = "settled"
        /\ LatestOutcome.state = "fulfilled"
        /\ result = <<LatestOutcome.value>>

\* C23. A read or parse failure is surfaced once and never retried: after
\* the failure, error is set, result is null and isProcessing is false, and
\* no parse is in flight until another file is submitted.
C23_FailureSurfacedOnce ==
    (error # <<>> /\ InFlight = {}) => (result = <<>> /\ ~isProcessing)

\* A step of the display layer: no file is submitted and no parse settles.
DisplayStep == calls' = calls /\ defaultReport' = defaultReport

\* The step of the upload-reset action.
UploadReset == DisplayStep /\ result # <<>> /\ result' = <<>>

\* overrides' differs from overrides in the entry of key at most.
OnlyKeyChanges(key) ==
    /\ DOMAIN overrides' \ {key} = DOMAIN overrides \ {key}
    /\ \A k \in DOMAIN overrides \ {key} : overrides'[k] = overrides[k]

C27_OverridesClearedWithReport ==
    [][(result' # <<>> /\ result' # result) => overrides' = <<>>]_vars

\* C28. error and result are never both non-null.
C28_ErrorExcludesResult == ~(error # <<>> /\ result # <<>>)

\* C29. isProcessing is true exactly while a call of handleFile has started
\* and not finished; a file whose name does not end in ".csv" never reaches
\* parseReport.
C29_ProcessingWhileInFlight ==
    /\ isProcessing <=> InFlight # {}
    /\ \A i \in 1..Len(calls) :
          calls[i].state = "refused" <=> ~endsWith(calls[i].file.name, ".csv")

(***************************************************************************)
(* Overrides on display, the table against the dashboard, the toggle       *)
(***************************************************************************)
\* C25. For every dashboard metric that offers an override (profit,
\* realMargin, totalCosts, incomeTax and payoutToFactory among them), the
\* value displayed while an override is stored under its key is the stored
\* override: a card is marked as manually set exactly when its value comes
\* from the override.
C25_OverrideIsDisplayed ==
    result # <<>> =>
        \A key \in OverrideKeys :
            isOverridden(key) => cardValue[key] = overrides[key]

\* C26. With no override set, the summary of the articles table (total
\* revenue, total pre-tax costs, global income tax, total profit, margin) is
\* the dashboard's totalSalesRevenue, preTaxCosts, incomeTax, profit and
\* realMargin of the same result, with the ads distributed or not, also
\* when the grand-total revenue is zero or negative.
C26_SummaryIsDashboard ==
    (result # <<>> /\ overrides = <<>>) =>
        /\ totalRevenue = totalSalesRevenue
        /\ totalPreTaxCosts = preTaxCosts
        /\ globalIncomeTax = incomeTax
        /\ totalProfit = profit
        /\ totalMargin = realMargin

\* The table's enriched articles with the distribution flag at flag.
EnrichedWith(flag) ==
    LET tr == totalRevenue
        tp == totalPromotionCost
    IN  [i \in 1..Len(articles) |-> enrich(articles[i], tr, tp, flag)]

\* C30. Toggling the distribution of ads only moves ad spend between
\* products: the sum over the products of finalPromotionCost, and with it
\* the total pre-tax costs of the summary, is the same with the flag on and
\* off.
C30_ToggleKeepsTotals ==
    result # <<>> =>
        LET on  == EnrichedWith(TRUE)
            off == EnrichedWith(FALSE)
        IN  /\ FieldSum(on, "finalPromotionCost") = FieldSum(off, "finalPromotionCost")
            /\ RSum([i \in 1..Len(articles) |-> preTaxCostTerms(on[i])])
                 = RSum([i \in 1..Len(articles) |-> preTaxCostTerms(off[i])])

====
